---- MODULE Spec2Model ----
(***************************************************************************)
(* Verification model of the drilling-control simulation core:             *)
(*   - recompute      (clientDetection.ts)   severity score + events       *)
(*   - runController  (clientController.ts)  four-state auto-driller       *)
(*   - SimulationEngine (SimulationEngine.tsx) playback scheduler          *)
(*                                                                         *)
(* JavaScript numbers are modelled as exact rationals <<n, d>> (d > 0, in  *)
(* lowest terms); IEEE-754 rounding is abstracted away.  Infinity,         *)
(* -Infinity and NaN are <<1, 0>>, <<-1, 0>> and <<0, 0>>.  A              *)
(* null/undefined channel is the empty tuple <<>>.                         *)
(***************************************************************************)
EXTENDS Integers, Sequences, FiniteSets, TLC

\* ------------------------------------------------------------------------
\* Bounds of the model
\* ------------------------------------------------------------------------
\* longest telemetry sequence handed to recompute
MaxRows == 5

\* largest minDurationSamples tried
MaxWindow == 3

\* samples fed to one run of the controller loop
MaxSamples == 17

\* largest holdoffSamples tried
MaxHoldoff == 2

\* length of the longest telemetry dataset played back
MaxTelemetry == 3

\* animation frames delivered in one run of the scheduler
MaxTicks == 4

\* length of the longest telemetry passed through the tuning pipeline
MaxPipeRows == 2

\* length of the longest telemetry recomputed in double arithmetic
MaxScaleRows == 2

\* animation frames delivered in one uninterrupted playback; more than the
\* longest playback takes (13 frames: frames 8 ms apart at 1x, the end reached
\* just after an emission)
MaxLiveTicks == 14

\* timestamp (ms since navigation start) of the mount; every frame comes later
StartTime == 1000

VARIABLES
  \* recompute: its arguments, its result, and whether it has been called
  rows, detParams, processed, called,
  \* runController: its arguments (params, nominalWob, nominalRpm), the loop
  \* index i, the loop locals, and the most recent entries of rows[].computed_css
  \* and of outputs[] (the last HistoryLen of each)
  ctrlArgs, ci, mem, cssSeen, outputs,
  \* SimulationEngine: the refs and React state of the playback scheduler
  \* (rows is the rawTelemetry prop, processed the memoised recompute result),
  \* the two DOM targets of the fast channel, and the animation-frame
  \* callbacks that are requested and not yet run or cancelled
  cursorIdxRef, cursorIdx, playing, speedIdx, lastFrameRef, lastDisplayRef,
  smoothedCssRef, displayCss, scrubFill, chartCursor, rafPending,
  \* the frame clock (ms), the number of frames delivered so far
  now, ticks,
  \* history: the last operation; the time of the last slow-channel emission
  \* made by a tick, kept while it is less than the throttle interval old (0
  \* otherwise); the time of the last one made since the loop was last started
  ev, lastSlowTs, loopSlowTs

detectVars == <<rows, detParams, processed, called>>
ctrlVars == <<ctrlArgs, ci, mem, cssSeen, outputs>>
refVars == <<cursorIdxRef, lastFrameRef, lastDisplayRef, smoothedCssRef>>
stateVars == <<cursorIdx, playing, speedIdx, displayCss>>
domVars == <<scrubFill, chartCursor>>
playVars ==
  <<refVars, stateVars, domVars, rafPending, now, ticks, ev, lastSlowTs, loopSlowTs>>
vars == <<detectVars, ctrlVars, playVars>>

\* ------------------------------------------------------------------------
\* Number arithmetic (exact rationals)
\* ------------------------------------------------------------------------
Abs(x) == IF x < 0 THEN -x ELSE x

\* Euclid's algorithm on a pair of naturals
GcdOf[p \in Nat \X Nat] == IF p[2] = 0 THEN p[1] ELSE GcdOf[<<p[2], p[1] % p[2]>>]

GCD(a, b) == GcdOf[<<a, b>>]

\* the number n/d in canonical form. A zero denominator gives the values a
\* division by zero produces: <<1, 0>> is Infinity, <<-1, 0>> is -Infinity and
\* <<0, 0>> is NaN (0/0).
Q(n, d) ==
  LET s == IF d < 0 THEN -1 ELSE 1
      g == GCD(Abs(n), Abs(d))
  IN  IF g = 0 THEN <<0, 0>> ELSE <<(s * n) \div g, (s * d) \div g>>

Zero == <<0, 1>>
One == <<1, 1>>
Half == <<1, 2>>
NaN == <<0, 0>>

\* Number.isNaN(x)
IsNaN(x) == x = NaN

\* a + b: Infinity + Infinity is Infinity, Infinity - Infinity is NaN
RAdd(a, b) ==
  IF a[2] = 0 /\ b[2] = 0 THEN (IF a = b THEN a ELSE NaN)
  ELSE Q(a[1] * b[2] + b[1] * a[2], a[2] * b[2])

\* a - b
RSub(a, b) ==
  IF a[2] = 0 /\ b[2] = 0 THEN (IF a[1] = -b[1] THEN a ELSE NaN)
  ELSE Q(a[1] * b[2] - b[1] * a[2], a[2] * b[2])

\* a * b (0 * Infinity is NaN) and a / b (x / 0 is +-Infinity, 0 / 0 is NaN)
RMul(a, b) == Q(a[1] * b[1], a[2] * b[2])
RDiv(a, b) ==
  IF b[1] < 0 THEN Q(-(a[1] * b[2]), a[2] * (-b[1])) ELSE Q(a[1] * b[2], a[2] * b[1])

\* a < b and a <= b: every comparison with NaN is false
RLt(a, b) ==
  IF a[2] = 0 \/ b[2] = 0
  THEN ~IsNaN(a) /\ ~IsNaN(b) /\
       (IF a[2] = 0 /\ b[2] = 0 THEN a[1] < b[1] ELSE a[1] * b[2] < b[1] * a[2])
  ELSE a[1] * b[2] < b[1] * a[2]
RLe(a, b) ==
  IF a[2] = 0 \/ b[2] = 0
  THEN ~IsNaN(a) /\ ~IsNaN(b) /\
       (IF a[2] = 0 /\ b[2] = 0 THEN a[1] <= b[1] ELSE a[1] * b[2] <= b[1] * a[2])
  ELSE a[1] * b[2] <= b[1] * a[2]
RGe(a, b) == RLe(b, a)
RGt(a, b) == RLt(b, a)

\* Math.min(a, b) and Math.max(a, b): NaN if either argument is NaN
RMin(a, b) == IF IsNaN(a) \/ IsNaN(b) THEN NaN ELSE IF RLe(a, b) THEN a ELSE b
RMax(a, b) == IF IsNaN(a) \/ IsNaN(b) THEN NaN ELSE IF RLe(a, b) THEN b ELSE a

\* x ?? 0
OrZero(x) == IF x = <<>> THEN Zero ELSE x

\* ------------------------------------------------------------------------
\* Number arithmetic (IEEE 754 binary64, round to nearest, ties to even)
\*
\* A JavaScript number is a double: sign s, 53-bit significand m and exponent
\* e, with value s * m * 2^e. The significand is a natural number written as
\* a sequence of limbs, least significant first, and has exactly 53 bits
\* unless the number is zero. Every operation computes the exact result and
\* rounds it once, as the hardware does. Infinities, NaN, subnormals and the
\* sign of zero are left out: the values of recompute on the inputs below stay
\* far from the ends of the exponent range.
\* ------------------------------------------------------------------------
\* Natural numbers of any size (plain mathematics: a number is the sequence
\* of its limbs); the base of a limb is 2^15, so that a product of two limbs
\* plus a carry stays an int
LimbBits == 15
LimbBase == 2^LimbBits

\* bits of the significand of a double
SignificandBits == 53

Limb(x, i) == IF i <= Len(x) THEN x[i] ELSE 0

RECURSIVE BigTrim(_)
BigTrim(x) ==
  IF x = <<>> THEN x
  ELSE IF x[Len(x)] = 0 THEN BigTrim(SubSeq(x, 1, Len(x) - 1))
  ELSE x

RECURSIVE BigOfNat(_)
BigOfNat(n) == IF n = 0 THEN <<>> ELSE <<n % LimbBase>> \o BigOfNat(n \div LimbBase)

RECURSIVE BigAddLoop(_, _, _, _, _)
BigAddLoop(x, y, i, carry, acc) ==
  IF i > Len(x) /\ i > Len(y)
  THEN (IF carry > 0 THEN Append(acc, carry) ELSE acc)
  ELSE LET t == Limb(x, i) + Limb(y, i) + carry
       IN  BigAddLoop(x, y, i + 1, t \div LimbBase, Append(acc, t % LimbBase))

BigAdd(x, y) == BigAddLoop(x, y, 1, 0, <<>>)

RECURSIVE BigSubLoop(_, _, _, _, _)
BigSubLoop(x, y, i, borrow, acc) ==
  IF i > Len(x) THEN acc
  ELSE LET t == Limb(x, i) - Limb(y, i) - borrow
       IN  BigSubLoop(x, y, i + 1, IF t < 0 THEN 1 ELSE 0,
                      Append(acc, IF t < 0 THEN t + LimbBase ELSE t))

\* x - y for x >= y
BigSub(x, y) == BigTrim(BigSubLoop(x, y, 1, 0, <<>>))

RECURSIVE BigCmpLoop(_, _, _)
BigCmpLoop(x, y, i) ==
  IF i = 0 THEN 0
  ELSE IF x[i] < y[i] THEN -1
  ELSE IF x[i] > y[i] THEN 1
  ELSE BigCmpLoop(x, y, i - 1)

\* -1, 0 or 1 as x is below, equal to or above y
BigCmp(x, y) ==
  IF Len(x) < Len(y) THEN -1
  ELSE IF Len(x) > Len(y) THEN 1
  ELSE BigCmpLoop(x, y, Len(x))

RECURSIVE BigMulSmallLoop(_, _, _, _, _)
BigMulSmallLoop(x, d, i, carry, acc) ==
  IF i > Len(x)
  THEN (IF carry > 0 THEN Append(acc, carry) ELSE acc)
  ELSE LET t == x[i] * d + carry
       IN  BigMulSmallLoop(x, d, i + 1, t \div LimbBase, Append(acc, t % LimbBase))

\* x * d for a limb d
BigMulSmall(x, d) == IF d = 0 THEN <<>> ELSE BigMulSmallLoop(x, d, 1, 0, <<>>)

\* x * LimbBase^q
BigShiftLimbs(x, q) == IF x = <<>> THEN x ELSE [i \in 1..q |-> 0] \o x

RECURSIVE BigMulLoop(_, _, _, _)
BigMulLoop(x, y, i, acc) ==
  IF i > Len(y) THEN acc
  ELSE BigMulLoop(x, y, i + 1,
                  BigAdd(acc, BigShiftLimbs(BigMulSmall(x, y[i]), i - 1)))

BigMul(x, y) == BigMulLoop(x, y, 1, <<>>)

\* x * 2^k
BigShl(x, k) == BigShiftLimbs(BigMulSmall(x, 2^(k % LimbBits)), k \div LimbBits)

RECURSIVE BigDivSmallLoop(_, _, _, _, _)
BigDivSmallLoop(x, d, i, rem, acc) ==
  IF i = 0 THEN acc
  ELSE LET t == rem * LimbBase + x[i]
       IN  BigDivSmallLoop(x, d, i - 1, t % d, <<t \div d>> \o acc)

\* floor(x / 2^k)
BigShr(x, k) ==
  IF k \div LimbBits >= Len(x) THEN <<>>
  ELSE LET top == SubSeq(x, k \div LimbBits + 1, Len(x))
       IN  BigTrim(BigDivSmallLoop(top, 2^(k % LimbBits), Len(top), 0, <<>>))

RECURSIVE SmallBitLen(_)
SmallBitLen(n) == IF n = 0 THEN 0 ELSE 1 + SmallBitLen(n \div 2)

BigBitLen(x) ==
  IF x = <<>> THEN 0 ELSE LimbBits * (Len(x) - 1) + SmallBitLen(x[Len(x)])

BigOdd(x) == x # <<>> /\ x[1] % 2 = 1

\* the double 0
FZero == [s |-> 1, m |-> <<>>, e |-> 0]

\* the significand q after rounding to nearest, ties to even: c is -1, 0 or 1
\* as the bits shifted out of q are below, equal to or above half a unit
FRoundNearest(q, c) ==
  IF c > 0 \/ (c = 0 /\ BigOdd(q)) THEN BigAdd(q, <<1>>) ELSE q

\* a rounded significand that carried into one more bit loses its last bit
FRoundCarry(s, q, e) ==
  IF BigBitLen(q) > SignificandBits
  THEN [s |-> s, m |-> BigShr(q, 1), e |-> e + 1]
  ELSE [s |-> s, m |-> q, e |-> e]

\* n has sh bits more than a significand holds, q = floor(n / 2^sh)
FRoundShifted(s, n, e, sh, q) ==
  FRoundCarry(s, FRoundNearest(q, BigCmp(BigSub(n, BigShl(q, sh)), BigShl(<<1>>, sh - 1))),
              e + sh)

\* sh = (bits of n) - SignificandBits
FRoundBits(s, n, e, sh) ==
  IF sh <= 0 THEN [s |-> s, m |-> BigShl(n, -sh), e |-> e + sh]
  ELSE FRoundShifted(s, n, e, sh, BigShr(n, sh))

\* the exact value s * n * 2^e rounded to a double
FRound(s, n, e) ==
  IF n = <<>> THEN FZero ELSE FRoundBits(s, n, e, BigBitLen(n) - SignificandBits)

FNeg(x) == IF x.m = <<>> THEN x ELSE [x EXCEPT !.s = -x.s]

\* x + y before rounding, for a = |x| and b = |y| as multiples of 2^e
FSumAligned(x, y, e, a, b) ==
  LET c == BigCmp(a, b)
  IN  IF x.s = y.s THEN [s |-> x.s, m |-> BigAdd(a, b), e |-> e]
      ELSE IF c = 0 THEN FZero
      ELSE IF c > 0 THEN [s |-> x.s, m |-> BigSub(a, b), e |-> e]
      ELSE [s |-> y.s, m |-> BigSub(b, a), e |-> e]

\* e is the lower of the two exponents
FSumAt(x, y, e) == FSumAligned(x, y, e, BigShl(x.m, x.e - e), BigShl(y.m, y.e - e))

\* x + y before rounding
FSumExact(x, y) ==
  IF x.m = <<>> THEN y
  ELSE IF y.m = <<>> THEN x
  ELSE FSumAt(x, y, IF x.e < y.e THEN x.e ELSE y.e)

\* the exact value r rounded to a double
FRoundExact(r) == FRound(r.s, r.m, r.e)

\* x + y
FAdd(x, y) == FRoundExact(FSumExact(x, y))

\* x - y
FSub(x, y) == FAdd(x, FNeg(y))

\* x * y
FMul(x, y) ==
  IF x.m = <<>> \/ y.m = <<>> THEN FZero
  ELSE FRound(x.s * y.s, BigMul(x.m, y.m), x.e + y.e)

\* long division, one quotient bit per step: t = <<r, d, k, q>> is the running
\* remainder, the divisor, the bits still to produce and the quotient so far;
\* the result is the quotient and the remainder that is left
FDivLoop[t \in Seq(Nat) \X Seq(Nat) \X Nat \X Seq(Nat)] ==
  LET ge == BigCmp(t[1], t[2]) >= 0
      r1 == IF ge THEN BigSub(t[1], t[2]) ELSE t[1]
  IN  IF t[3] = 0 THEN <<t[4], t[1]>>
      ELSE FDivLoop[<<BigShl(r1, 1), t[2], t[3] - 1,
                      BigAdd(BigShl(t[4], 1), IF ge THEN <<1>> ELSE <<>>)>>]

\* qr = <<quotient, remainder>>: a remainder left sets one more (sticky) bit
FDivRound(x, y, qr) ==
  FRound(x.s * y.s, BigAdd(BigShl(qr[1], 1), IF qr[2] = <<>> THEN <<>> ELSE <<1>>),
         x.e - y.e - (SignificandBits + 3))

\* x / y for y # 0: the quotient to 56 bits and a sticky bit, rounded
FDiv(x, y) ==
  IF x.m = <<>> THEN FZero
  ELSE FDivRound(x, y, FDivLoop[<<x.m, y.m, SignificandBits + 3, <<>>>>])

\* r < 0
FNegative(r) == r.m # <<>> /\ r.s = -1

\* x < y, x <= y, x >= y
FLt(x, y) == FNegative(FSumExact(x, FNeg(y)))
FLe(x, y) == ~FLt(y, x)
FGe(x, y) == ~FLt(x, y)

\* Math.min, Math.max
FMin(x, y) == IF FLt(y, x) THEN y ELSE x
FMax(x, y) == IF FLt(x, y) THEN y ELSE x

\* |x|
FAbs(x) == [x EXCEPT !.s = 1]

\* the double of an integer, and of the literal n/d (the double nearest to it)
FInt(n) == FRound(IF n < 0 THEN -1 ELSE 1, BigOfNat(IF n < 0 THEN -n ELSE n), 0)
FLit(n, d) == FDiv(FInt(n), FInt(d))

FOne == FInt(1)
FHalf == FLit(1, 2)

\* ------------------------------------------------------------------------
\* recompute (clientDetection.ts)
\* ------------------------------------------------------------------------
\* params.mwdWeight + params.torqueWeight + params.rpmWeight
WeightTotal(params) ==
  RAdd(RAdd(params.mwdWeight, params.torqueWeight), params.rpmWeight)

\* Math.max(0, Math.min(1, x * 0.5))
HalfClamped(x) == RMax(Zero, RMin(One, RMul(x, Half)))

\* the final bound applied to mwd + torque + rpm
CssBound(sum) == RMin(One, sum)

\* Step 1, the body of rows.map: computed_css of one row
ComputeCss(r, params) ==
  LET total == WeightTotal(params)
      wMwd == RDiv(params.mwdWeight, total)
      wTorque == RDiv(params.torqueWeight, total)
      wRpm == RDiv(params.rpmWeight, total)
      mwd == RMul(OrZero(r.mwd_ssi), wMwd)
      torque == RMul(HalfClamped(OrZero(r.torque_deviation)), wTorque)
      rpm == RMul(HalfClamped(OrZero(r.rpm_ssi)), wRpm)
  IN  CssBound(RAdd(RAdd(mwd, torque), rpm))

\* rows.map(...): the computed_css column, built row by row
RECURSIVE CssLoop(_, _, _, _)
CssLoop(rs, params, i, acc) ==
  IF i > Len(rs) THEN acc
  ELSE CssLoop(rs, params, i + 1, Append(acc, ComputeCss(rs[i], params)))

CssOf(rs, params) == CssLoop(rs, params, 1, <<>>)

\* r.computed_css >= params.cssThreshold
AtOrAbove(css, params) == RGe(css, params.cssThreshold)

\* rawFlag = processed.map(r => r.computed_css >= params.cssThreshold)
RECURSIVE RawFlagLoop(_, _, _, _)
RawFlagLoop(css, params, i, acc) ==
  IF i > Len(css) THEN acc
  ELSE RawFlagLoop(css, params, i + 1, Append(acc, AtOrAbove(css[i], params)))

RawFlagOf(css, params) == RawFlagLoop(css, params, 1, <<>>)

\* new Array(n).fill(false)
RECURSIVE AllFalse(_)
AllFalse(n) == IF n = 0 THEN <<>> ELSE Append(AllFalse(n - 1), FALSE)

\* an inner loop that looks at the last sample of the window only
AllTrueLoopLastOnly(rawFlag, j, i) == rawFlag[i]

\* the inner loop: for (j = from; j <= i; j++) if (!rawFlag[j]) {allTrue = false; break}
\* (indices are 1-based here: source index k is k+1)
RECURSIVE AllTrueLoop(_, _, _)
AllTrueLoop(rawFlag, j, i) ==
  IF j > i THEN TRUE
  ELSE IF ~rawFlag[j] THEN FALSE
  ELSE AllTrueLoop(rawFlag, j + 1, i)

\* first index visited by the outer loop, for (let i = w - 1; ...), 1-based
SustainStart(w) == w

\* a window that starts one sample late (j = i - w + 2)
WindowStartLate(i, w) == i - w + 2

\* first index of the window ending at i: j = i - w + 1
WindowStart(i, w) == i - w + 1

\* the outer loop: sustained = new Array(n).fill(false); for (i = w-1; i < n; i++) ...
\* (with w < 1 the loop starts below the first element: sustained[-1] = true
\* sets a property of the array object and none of its elements)
RECURSIVE SustainLoop(_, _, _, _)
SustainLoop(rawFlag, w, i, sustained) ==
  IF i > Len(rawFlag) THEN sustained
  ELSE SustainLoop(rawFlag, w, i + 1,
         IF AllTrueLoop(rawFlag, WindowStart(i, w), i) /\ i >= 1
         THEN [sustained EXCEPT ![i] = TRUE]
         ELSE sustained)

SustainedOf(rawFlag, w) ==
  SustainLoop(rawFlag, w, SustainStart(w), AllFalse(Len(rawFlag)))

\* an event-id loop that never leaves an event (the else-if branch is missing)
EventStepNoReset(acc, s) ==
  LET opens == s /\ ~acc.inEvent
      eventId == IF opens THEN acc.eventId + 1 ELSE acc.eventId
      inEvent == IF opens THEN TRUE ELSE acc.inEvent
  IN  [eventId |-> eventId, inEvent |-> inEvent,
       ids |-> Append(acc.ids, IF s THEN eventId ELSE 0)]

\* Step 3, one iteration of the event-id loop: acc = [eventId, inEvent, ids]
EventStep(acc, s) ==
  LET opens == s /\ ~acc.inEvent
      eventId == IF opens THEN acc.eventId + 1 ELSE acc.eventId
      inEvent == IF opens THEN TRUE ELSE IF ~s THEN FALSE ELSE acc.inEvent
  IN  [eventId |-> eventId, inEvent |-> inEvent,
       ids |-> Append(acc.ids, IF s THEN eventId ELSE 0)]

RECURSIVE EventLoop(_, _, _)
EventLoop(sustained, i, acc) ==
  IF i > Len(sustained) THEN acc.ids
  ELSE EventLoop(sustained, i + 1, EventStep(acc, sustained[i]))

EventIdsOf(sustained) ==
  EventLoop(sustained, 1, [eventId |-> 0, inEvent |-> FALSE, ids |-> <<>>])

\* the rows returned: computed_css, computed_flag and computed_event_id of each
RECURSIVE Assemble(_, _, _, _, _)
Assemble(css, sustained, ids, i, acc) ==
  IF i > Len(css) THEN acc
  ELSE Assemble(css, sustained, ids, i + 1,
         Append(acc, [computed_css |-> css[i], computed_flag |-> sustained[i],
                      computed_event_id |-> ids[i]]))

\* recompute(rows, params): the processed rows (derived fields only)
Recompute(rs, params) ==
  LET css == CssOf(rs, params)
      sustained == SustainedOf(RawFlagOf(css, params), params.minDurationSamples)
  IN  Assemble(css, sustained, EventIdsOf(sustained), 1, <<>>)

\* ------------------------------------------------------------------------
\* recompute in double arithmetic: the same steps with every +, * and /
\* rounded as the engine rounds them
\* ------------------------------------------------------------------------
\* x ?? 0
OrZeroD(x) == IF x = <<>> THEN FZero ELSE x

\* params.mwdWeight + params.torqueWeight + params.rpmWeight
WeightTotalD(params) ==
  FAdd(FAdd(params.mwdWeight, params.torqueWeight), params.rpmWeight)

\* a weight used as passed, without the division by the total
UnnormalisedD(x, total) == x

\* params.mwdWeight / total, and the same for the other two weights
NormalisedD(x, total) == FDiv(x, total)

\* wMwd, wTorque, wRpm
WeightsOfTotalD(params, total) ==
  <<NormalisedD(params.mwdWeight, total), NormalisedD(params.torqueWeight, total),
    NormalisedD(params.rpmWeight, total)>>

\* the three weights of params over their total
WeightsD(params) == WeightsOfTotalD(params, WeightTotalD(params))

\* Math.max(0, Math.min(1, x * 0.5))
HalfClampedD(x) == FMax(FZero, FMin(FOne, FMul(x, FHalf)))

\* Step 1, the body of rows.map: computed_css of one row, w = <<wMwd, wTorque, wRpm>>
ComputeCssD(r, w) ==
  LET mwd == FMul(OrZeroD(r.mwd_ssi), w[1])
      torque == FMul(HalfClampedD(OrZeroD(r.torque_deviation)), w[2])
      rpm == FMul(HalfClampedD(OrZeroD(r.rpm_ssi)), w[3])
  IN  FMin(FOne, FAdd(FAdd(mwd, torque), rpm))

RECURSIVE CssLoopD(_, _, _, _)
CssLoopD(rs, w, i, acc) ==
  IF i > Len(rs) THEN acc
  ELSE CssLoopD(rs, w, i + 1, Append(acc, ComputeCssD(rs[i], w)))

\* rawFlag = processed.map(r => r.computed_css >= params.cssThreshold)
RECURSIVE RawFlagLoopD(_, _, _, _)
RawFlagLoopD(css, params, i, acc) ==
  IF i > Len(css) THEN acc
  ELSE RawFlagLoopD(css, params, i + 1, Append(acc, FGe(css[i], params.cssThreshold)))

\* recompute(rows, params): the processed rows (derived fields only)
RecomputeD(rs, params) ==
  LET css == CssLoopD(rs, WeightsD(params), 1, <<>>)
      sustained == SustainedOf(RawFlagLoopD(css, params, 1, <<>>), params.minDurationSamples)
  IN  Assemble(css, sustained, EventIdsOf(sustained), 1, <<>>)

\* ------------------------------------------------------------------------
\* runController (clientController.ts)
\* ------------------------------------------------------------------------
\* samples held before the recovery ramp starts: i - recoveryStartIdx >= 12
RecoveryHoldSamples == 12

\* 0.008, the WOB ramp step as a fraction of nominal
WobRampFraction == <<1, 125>>

\* 0.5, the RPM ramp step
RpmRampStep == <<1, 2>>

\* 0.98, the fraction of nominal WOB that ends the recovery
RecoveredFraction == <<49, 50>>

\* the factor 10 of the RPM law
RpmGainScale == <<10, 1>>

\* the locals of runController before the loop
CtrlInit(a) ==
  [state |-> "NORMAL", detectionStartIdx |-> 0, recoveryStartIdx |-> 0,
   wobSp |-> a.nominalWob, rpmSp |-> a.nominalRpm]

\* css >= params.ssiEngage
EngageCrossed(css, a) == RGe(css, a.params.ssiEngage)

\* a holdoff test that is off by one (> instead of >=)
HoldoffElapsedStrict(i, m, a) == i - m.detectionStartIdx > a.params.holdoffSamples

\* i - detectionStartIdx >= params.holdoffSamples
HoldoffElapsed(i, m, a) == i - m.detectionStartIdx >= a.params.holdoffSamples

\* an exit test without hysteresis: the engage threshold is used for both
BelowRecoveryNoBand(css, a) == RLt(css, a.params.ssiEngage)

\* css < params.ssiRecovery
BelowRecovery(css, a) == RLt(css, a.params.ssiRecovery)

\* const excess = Math.max(0, css - params.ssiEngage)
Excess(css, a) == RMax(Zero, RSub(css, a.params.ssiEngage))

\* a WOB law without its floor
MitigatedWobNoFloor(css, a) ==
  RSub(a.nominalWob, RMul(RMul(a.params.kpWob, Excess(css, a)), a.nominalWob))

\* wobSp = Math.max(nominalWob * wobMinFraction, nominalWob - kpWob * excess * nominalWob)
MitigatedWob(css, a) ==
  RMax(RMul(a.nominalWob, a.params.wobMinFraction),
       RSub(a.nominalWob, RMul(RMul(a.params.kpWob, Excess(css, a)), a.nominalWob)))

\* rpmSp = Math.min(nominalRpm + rpmMaxIncrease, nominalRpm + kpRpm * excess * 10)
MitigatedRpm(css, a) ==
  RMin(RAdd(a.nominalRpm, a.params.rpmMaxIncrease),
       RAdd(a.nominalRpm, RMul(RMul(a.params.kpRpm, Excess(css, a)), RpmGainScale)))

\* a NORMAL case that forgets to record where the detection started
CaseNormalKeepsStart(m, css, i, a) ==
  LET m1 == [m EXCEPT !.wobSp = a.nominalWob, !.rpmSp = a.nominalRpm]
  IN  IF EngageCrossed(css, a) THEN [m1 EXCEPT !.state = "DETECTING"] ELSE m1

\* case "NORMAL"
CaseNormal(m, css, i, a) ==
  LET m1 == [m EXCEPT !.wobSp = a.nominalWob, !.rpmSp = a.nominalRpm]
  IN  IF EngageCrossed(css, a)
      THEN [m1 EXCEPT !.state = "DETECTING", !.detectionStartIdx = i]
      ELSE m1

\* a MITIGATING case that returns to NORMAL at once when the severity clears
CaseMitigatingSkipsRecovery(m, css, i, a) ==
  LET m1 == [m EXCEPT !.wobSp = MitigatedWob(css, a), !.rpmSp = MitigatedRpm(css, a)]
  IN  IF BelowRecovery(css, a)
      THEN [m1 EXCEPT !.state = "NORMAL", !.recoveryStartIdx = i]
      ELSE m1

\* case "MITIGATING"
CaseMitigating(m, css, i, a) ==
  LET m1 == [m EXCEPT !.wobSp = MitigatedWob(css, a), !.rpmSp = MitigatedRpm(css, a)]
  IN  IF BelowRecovery(css, a)
      THEN [m1 EXCEPT !.state = "RECOVERING", !.recoveryStartIdx = i]
      ELSE m1

\* a DETECTING case without its break statement: control falls into MITIGATING
CaseDetectingFallThrough(m, css, i, a) ==
  LET m1 == IF ~EngageCrossed(css, a) THEN [m EXCEPT !.state = "NORMAL"]
            ELSE IF HoldoffElapsed(i, m, a) THEN [m EXCEPT !.state = "MITIGATING"]
            ELSE m
      m2 == CaseMitigating(m1, css, i, a)
  IN  [m2 EXCEPT !.state = m1.state, !.recoveryStartIdx = m1.recoveryStartIdx]

\* case "DETECTING"
CaseDetecting(m, css, i, a) ==
  IF ~EngageCrossed(css, a) THEN [m EXCEPT !.state = "NORMAL"]
  ELSE IF HoldoffElapsed(i, m, a) THEN [m EXCEPT !.state = "MITIGATING"]
  ELSE m

\* a ramp that ends the recovery only when WOB has reached nominal exactly
RampBackToNominal(m, a) ==
  LET w == RMin(a.nominalWob, RAdd(m.wobSp, RMul(WobRampFraction, a.nominalWob)))
      r == RMax(a.nominalRpm, RSub(m.rpmSp, RpmRampStep))
  IN  IF RGe(w, a.nominalWob)
      THEN [m EXCEPT !.state = "NORMAL", !.wobSp = a.nominalWob, !.rpmSp = a.nominalRpm]
      ELSE [m EXCEPT !.wobSp = w, !.rpmSp = r]

\* the ramp branch of RECOVERING: i - recoveryStartIdx >= 12
RampBack(m, a) ==
  LET w == RMin(a.nominalWob, RAdd(m.wobSp, RMul(WobRampFraction, a.nominalWob)))
      r == RMax(a.nominalRpm, RSub(m.rpmSp, RpmRampStep))
  IN  IF RGe(w, RMul(a.nominalWob, RecoveredFraction))
      THEN [m EXCEPT !.state = "NORMAL", !.wobSp = a.nominalWob, !.rpmSp = a.nominalRpm]
      ELSE [m EXCEPT !.wobSp = w, !.rpmSp = r]

\* a RECOVERING case that holds one sample too long (> 12 instead of >= 12)
CaseRecoveringLongHold(m, css, i, a) ==
  IF EngageCrossed(css, a) THEN [m EXCEPT !.state = "MITIGATING"]
  ELSE IF i - m.recoveryStartIdx > RecoveryHoldSamples THEN RampBack(m, a)
  ELSE m

\* case "RECOVERING"
CaseRecovering(m, css, i, a) ==
  IF EngageCrossed(css, a) THEN [m EXCEPT !.state = "MITIGATING"]
  ELSE IF i - m.recoveryStartIdx >= RecoveryHoldSamples THEN RampBack(m, a)
  ELSE m

\* the switch statement: one iteration of the loop body, before outputs.push
CtrlStep(m, css, i, a) ==
  CASE m.state = "NORMAL" -> CaseNormal(m, css, i, a)
    [] m.state = "DETECTING" -> CaseDetecting(m, css, i, a)
    [] m.state = "MITIGATING" -> CaseMitigating(m, css, i, a)
    [] m.state = "RECOVERING" -> CaseRecovering(m, css, i, a)

\* outputs.push({ state, wob_setpoint: wobSp, rpm_setpoint: rpmSp })
OutputOf(m) == [state |-> m.state, wob_setpoint |-> m.wobSp, rpm_setpoint |-> m.rpmSp]

\* runController(rows, params, nominalWob, nominalRpm) on the css column of rows
RECURSIVE CtrlLoop(_, _, _, _, _)
CtrlLoop(css, a, i, m, outs) ==
  IF i >= Len(css) THEN outs
  ELSE LET m1 == CtrlStep(m, css[i + 1], i, a)
       IN  CtrlLoop(css, a, i + 1, m1, Append(outs, OutputOf(m1)))

\* parameter combinations called invalid: recovery threshold above the engage
\* threshold, a negative gain, a floor fraction that is not positive
InvalidParams(p) ==
  \/ RGt(p.ssiRecovery, p.ssiEngage)
  \/ RLt(p.kpWob, Zero)
  \/ RLt(p.kpRpm, Zero)
  \/ RLe(p.wobMinFraction, Zero)

\* a runController that rejects invalid parameters and returns nothing
RunControllerValidated(css, a) ==
  IF InvalidParams(a.params) THEN <<>> ELSE CtrlLoop(css, a, 0, CtrlInit(a), <<>>)

\* runController(rows, params, nominalWob, nominalRpm) on rows of severities css
RunController(css, a) == CtrlLoop(css, a, 0, CtrlInit(a), <<>>)

\* ------------------------------------------------------------------------
\* Inputs
\* ------------------------------------------------------------------------
\* telemetry rows (the three channels recompute reads); <<>> is null
QuietRow == [mwd_ssi |-> <<>>, torque_deviation |-> <<>>, rpm_ssi |-> <<>>]
MwdRow == [mwd_ssi |-> <<1, 1>>, torque_deviation |-> <<>>, rpm_ssi |-> <<>>]
NegativeRow == [mwd_ssi |-> <<-1, 2>>, torque_deviation |-> <<-1, 1>>, rpm_ssi |-> <<>>]
LoudRow == [mwd_ssi |-> <<3, 2>>, torque_deviation |-> <<3, 1>>, rpm_ssi |-> <<1, 1>>]
RowCatalogue == {QuietRow, MwdRow, NegativeRow, LoudRow}

RowSeqs == UNION {[1..n -> RowCatalogue] : n \in 0..MaxRows}

\* DEFAULT_PARAMS
DefaultDetParams ==
  [mwdWeight |-> <<3, 5>>, torqueWeight |-> <<3, 10>>, rpmWeight |-> <<1, 10>>,
   cssThreshold |-> <<1, 4>>, minDurationSamples |-> 4]

\* weight triples: all non-negative with a positive sum
WeightSet ==
  {<<DefaultDetParams.mwdWeight, DefaultDetParams.torqueWeight, DefaultDetParams.rpmWeight>>,
   <<One, Zero, Zero>>, <<Zero, One, One>>}

DetParamSet ==
  {[mwdWeight |-> wt[1], torqueWeight |-> wt[2], rpmWeight |-> wt[3],
    cssThreshold |-> th, minDurationSamples |-> w] :
     wt \in WeightSet, th \in {DefaultDetParams.cssThreshold, <<3, 5>>}, w \in 1..MaxWindow}

\* weight triples whose sum is not positive: all zero, cancelling, negative
BadWeightSet ==
  {<<Zero, Zero, Zero>>, <<One, <<-1, 1>>, Zero>>, <<<<-3, 5>>, <<-3, 10>>, <<-1, 10>>>>}

\* window sizes below 1
BadWindowSet == {0, -1}

\* DetectionParams outside the documented ranges: a weight sum <= 0, or
\* minDurationSamples < 1
BadDetParamSet ==
  {[DefaultDetParams EXCEPT !.mwdWeight = wt[1], !.torqueWeight = wt[2],
                            !.rpmWeight = wt[3], !.minDurationSamples = 1] :
     wt \in BadWeightSet}
  \cup {[DefaultDetParams EXCEPT !.minDurationSamples = w] : w \in BadWindowSet}

\* DEFAULT_CONTROLLER
DefaultController ==
  [ssiEngage |-> <<1, 4>>, ssiRecovery |-> <<1, 5>>, holdoffSamples |-> 5,
   kpWob |-> <<3, 10>>, wobMinFraction |-> <<7, 20>>, kpRpm |-> <<3, 20>>,
   rpmMaxIncrease |-> <<25, 1>>]

\* parameter sets: the defaults with every holdoff tried, a high-gain set that
\* reaches the WOB floor and the RPM cap, a set whose recovery threshold
\* lies above its engage threshold (so that RECOVERING starts below nominal),
\* and a set with a negative RPM gain and a zero WOB floor
CtrlParamSet ==
  {[DefaultController EXCEPT !.holdoffSamples = h] : h \in 0..MaxHoldoff}
  \cup {[DefaultController EXCEPT !.holdoffSamples = 1, !.kpWob = <<4, 1>>,
                                  !.kpRpm = <<20, 1>>]}
  \cup {[DefaultController EXCEPT !.holdoffSamples = 1, !.ssiEngage = <<1, 5>>,
                                  !.ssiRecovery = <<3, 5>>, !.kpWob = <<7, 10>>]}
  \cup {[DefaultController EXCEPT !.holdoffSamples = 0, !.kpRpm = <<-3, 20>>,
                                  !.wobMinFraction = Zero]}

CtrlArgSet ==
  {[params |-> p, nominalWob |-> <<100, 1>>, nominalRpm |-> <<120, 1>>] : p \in CtrlParamSet}

\* severities fed to the controller: below recovery, inside the hysteresis
\* band, exactly at the engage threshold, above it
CssGrid == {<<1, 10>>, <<11, 50>>, <<1, 4>>, <<11, 20>>}

\* entries of rows[] and outputs[] kept in cssSeen and outputs: the holdoff
\* window and the sample before it
HistoryLen == ctrlArgs.params.holdoffSamples + 2

\* ------------------------------------------------------------------------
\* Specification of recompute
\* ------------------------------------------------------------------------
CtrlIdle ==
  /\ ctrlArgs = [params |-> DefaultController, nominalWob |-> <<100, 1>>,
                 nominalRpm |-> <<120, 1>>]
  /\ ci = 0
  /\ mem = CtrlInit(ctrlArgs)
  /\ cssSeen = <<>>
  /\ outputs = <<>>

DetectIdle ==
  /\ rows = <<>>
  /\ detParams = DefaultDetParams
  /\ processed = <<>>
  /\ called = FALSE

PlayIdle ==
  /\ cursorIdxRef = 0 /\ cursorIdx = 0 /\ playing = FALSE /\ speedIdx = 1
  /\ lastFrameRef = 0 /\ lastDisplayRef = 0
  /\ smoothedCssRef = Zero /\ displayCss = Zero
  /\ scrubFill = Zero /\ chartCursor = Zero /\ rafPending = <<>>
  /\ now = 0 /\ ticks = 0
  /\ ev = [op |-> "mount", req |-> 0, repeat |-> FALSE, due |-> FALSE, slow |-> FALSE, again |-> FALSE, early |-> FALSE,
           earlyInLoop |-> FALSE] /\ lastSlowTs = 0 /\ loopSlowTs = 0

InitDetect ==
  /\ rows \in RowSeqs
  /\ detParams \in DetParamSet
  /\ processed = <<>>
  /\ called = FALSE
  /\ CtrlIdle
  /\ PlayIdle

\* processed = recompute(rows, detParams)
CallRecompute ==
  /\ ~called
  /\ processed' = Recompute(rows, detParams)
  /\ called' = TRUE
  /\ UNCHANGED <<rows, detParams, ctrlVars, playVars>>

NextDetect == CallRecompute

SpecDetect == InitDetect /\ [][NextDetect]_vars

\* recompute on DetectionParams outside the documented ranges
InitDetectAny ==
  /\ rows \in RowSeqs
  /\ detParams \in BadDetParamSet
  /\ processed = <<>>
  /\ called = FALSE
  /\ CtrlIdle
  /\ PlayIdle

SpecDetectAny == InitDetectAny /\ [][NextDetect]_vars

\* ------------------------------------------------------------------------
\* Specification of runController: one action per case of the switch
\* ------------------------------------------------------------------------
InitCtrl ==
  /\ ctrlArgs \in CtrlArgSet
  /\ ci = 0
  /\ mem = CtrlInit(ctrlArgs)
  /\ cssSeen = <<>>
  /\ outputs = <<>>
  /\ DetectIdle
  /\ PlayIdle

KeepLast(s, x) ==
  LET t == Append(s, x)
  IN  IF Len(t) > HistoryLen THEN Tail(t) ELSE t

\* one loop iteration on a row whose computed_css is css
Iterate(css) ==
  /\ ci < MaxSamples
  /\ mem' = CtrlStep(mem, css, ci, ctrlArgs)
  /\ outputs' = KeepLast(outputs, OutputOf(mem'))
  /\ cssSeen' = KeepLast(cssSeen, css)
  /\ ci' = ci + 1
  /\ UNCHANGED <<ctrlArgs, detectVars, playVars>>

IterateNormal == \E css \in CssGrid : mem.state = "NORMAL" /\ Iterate(css)
IterateDetecting == \E css \in CssGrid : mem.state = "DETECTING" /\ Iterate(css)
IterateMitigating == \E css \in CssGrid : mem.state = "MITIGATING" /\ Iterate(css)
IterateRecovering == \E css \in CssGrid : mem.state = "RECOVERING" /\ Iterate(css)

NextCtrl ==
  \/ IterateNormal
  \/ IterateDetecting
  \/ IterateMitigating
  \/ IterateRecovering

SpecCtrl == InitCtrl /\ [][NextCtrl]_vars

\* ------------------------------------------------------------------------
\* SimulationEngine: the playback scheduler
\* ------------------------------------------------------------------------
\* SPEEDS[k].samples, k = 0..3
SPEEDS == <<1, 5, 20, 100>>

\* minimum frame spacing: frameDelta >= 16
FrameIntervalMs == 16

\* slow-channel throttle: ts - lastDisplayRef.current >= 66
DisplayIntervalMs == 66

\* EMA coefficients 0.4 (attack) and 0.08 (release)
AttackAlpha == <<2, 5>>
ReleaseAlpha == <<2, 25>>

Min(a, b) == IF a <= b THEN a ELSE b
Max(a, b) == IF a >= b THEN a ELSE b

\* processed.length
N == Len(processed)

\* telemetry datasets: n rows cycling through the row catalogue
DatasetRow(k) ==
  CASE k % 4 = 1 -> QuietRow
    [] k % 4 = 2 -> MwdRow
    [] k % 4 = 3 -> LoudRow
    [] OTHER -> NegativeRow

RECURSIVE Dataset(_)
Dataset(n) == IF n = 0 THEN <<>> ELSE Append(Dataset(n - 1), DatasetRow(n))

TelemetryCatalogue == {Dataset(1), Dataset(MaxTelemetry)}

\* detection parameters the tuning panel switches between
PanelDetParams == {DefaultDetParams, [DefaultDetParams EXCEPT !.cssThreshold = <<3, 5>>,
                                                             !.minDurationSamples = 2]}

\* useMemo(() => recompute(rawTelemetry, detParams), [rawTelemetry, detParams])
ProcessedMemo ==
  [ds \in TelemetryCatalogue, p \in PanelDetParams |-> Recompute(ds, p)]

\* speed buttons pressed: 1x and 5x (with at most MaxTelemetry rows, 20x and
\* 100x advance exactly as 5x does)
SpeedChoices == {0, 1}

\* time between two animation frames (ms)
TickDeltas == {8, 16, 66}

\* the first frame after the loop is (re)started only stores its timestamp
\* (lastFrameRef.current === 0), so one gap stands for all; later frames come
\* early, on time or late
FrameGaps == IF lastFrameRef = 0 THEN {FrameIntervalMs} ELSE TickDeltas

\* frameDelta >= 16
FrameDue(frameDelta) == frameDelta >= FrameIntervalMs

\* a throttle that never lets the slow channel through
DisplayDueNever(ts) == FALSE

\* a throttle test that always passes
DisplayDueAlways(ts) == TRUE

\* ts - lastDisplayRef.current >= 66
DisplayDue(ts) == ts - lastDisplayRef >= DisplayIntervalMs

\* speedIdx as the callback that runs next closed over it
TickSpeed == Head(rafPending).speedIdx

\* an advance that wraps around at the end instead of stopping there
AdvancedIndexWrapping == (cursorIdxRef + SPEEDS[speedIdx + 1]) % N

\* an advance that ignores the selected speed
AdvancedIndexByOne == Min(cursorIdxRef + 1, N - 1)

\* Math.min(cursorIdxRef.current + SPEEDS[speedIdx].samples, processed.length - 1)
AdvancedIndex == Min(cursorIdxRef + SPEEDS[TickSpeed + 1], N - 1)

\* frac = processed.length > 1 ? newIdx / (processed.length - 1) : 0
CursorFraction(idx) == IF N > 1 THEN Q(idx, N - 1) ELSE Zero

\* processed[newIdx]?.computed_css ?? 0
RawCssAt(idx) == IF idx + 1 \in 1..N THEN processed[idx + 1].computed_css ELSE Zero

\* a filter with attack and release exchanged: slow to rise, fast to fall
SmoothedSwapped(raw, y) ==
  LET alpha == IF RGt(raw, y) THEN ReleaseAlpha ELSE AttackAlpha
  IN  RAdd(RMul(alpha, raw), RMul(RSub(One, alpha), y))

\* alpha = raw > smoothed ? 0.4 : 0.08; alpha * raw + (1 - alpha) * smoothed
Smoothed(raw, y) ==
  LET alpha == IF RGt(raw, y) THEN AttackAlpha ELSE ReleaseAlpha
  IN  RAdd(RMul(alpha, raw), RMul(RSub(One, alpha), y))

\* an emission that carries the cursor of before this frame's advance
EmittedIndexStale(newIdx) == cursorIdxRef

\* setCursorIdx(newIdx): the index the slow channel carries
EmittedIndex(newIdx) == newIdx

\* an end test that fires one row early
EndReachedEarly(idx) == idx >= N - 2

\* newIdx >= processed.length - 1
EndReached(idx) == idx >= N - 1

\* eventCount = processed.length > 0
\*   ? processed[processed.length - 1].computed_event_id : 0
EventCount == IF N > 0 THEN processed[N].computed_event_id ELSE 0

\* atEnd = cursorIdx >= processed.length - 1
AtEnd == cursorIdx >= N - 1

\* row = processed[cursorIdx] ?? processed[0]: the row the readings show
SlowRow == IF cursorIdx + 1 \in 1..N THEN processed[cursorIdx + 1] ELSE processed[1]

\* the record kept of an operation: its kind, and for a tick whether the frame
\* was due, whether the slow channel was emitted, and whether that emission
\* came less than the throttle interval after the previous one (early), or
\* after the previous one of the same run of the loop (earlyInLoop), and
\* whether it was not the first of this run of the loop (again); for a seek
\* the index requested (req) and whether the operation before it was a seek
\* with the same request (repeat); for a speed button the speed index
\* requested (req) and whether it was the selected one already (repeat)
Ev(op, due, slow, ts) ==
  [op |-> op, req |-> 0, repeat |-> FALSE,
   due |-> due, slow |-> slow, again |-> slow /\ loopSlowTs # 0,
   early |-> slow /\ lastSlowTs # 0 /\ ts - lastSlowTs < DisplayIntervalMs,
   earlyInLoop |-> slow /\ loopSlowTs # 0 /\ ts - loopSlowTs < DisplayIntervalMs]

\* lastSlowTs after a frame at ts
RecentSlow(slow, ts) ==
  IF slow THEN ts
  ELSE IF ts - lastSlowTs >= DisplayIntervalMs THEN 0
  ELSE lastSlowTs

\* the state after the component mounted
Init ==
  /\ rows \in TelemetryCatalogue
  /\ detParams = DefaultDetParams
  /\ processed = ProcessedMemo[rows, detParams]
  /\ called = FALSE
  /\ CtrlIdle
  /\ cursorIdxRef = 0 /\ cursorIdx = 0 /\ playing = FALSE /\ speedIdx = 1
  /\ lastFrameRef = 0 /\ lastDisplayRef = 0
  /\ smoothedCssRef = Zero /\ displayCss = Zero
  /\ scrubFill = Zero /\ chartCursor = Zero /\ rafPending = <<>>
  /\ now = StartTime /\ ticks = 0
  /\ ev = [op |-> "mount", req |-> 0, repeat |-> FALSE, due |-> FALSE, slow |-> FALSE, again |-> FALSE, early |-> FALSE,
           earlyInLoop |-> FALSE]
  /\ lastSlowTs = 0 /\ loopSlowTs = 0

\* a callback that is not rebuilt when the speed changes (speedIdx missing from
\* the dependency list): it keeps the speed of the render before
TickClosureStaleSpeed(s, rs, dp) ==
  [speedIdx |-> speedIdx, rows |-> rs, detParams |-> dp, current |-> TRUE]

\* tick = useCallback(..., [speedIdx, processed]): a requested callback with
\* the speed and the processed array (rows, detParams) it closes over; current
\* tells whether rafRef.current holds its request id
TickClosure(s, rs, dp) == [speedIdx |-> s, rows |-> rs, detParams |-> dp, current |-> TRUE]

\* cancelAnimationFrame(rafRef.current)
CancelFrame(q) == SelectSeq(q, LAMBDA r : ~r.current)

\* rafRef.current = requestAnimationFrame(c)
RequestFrame(q, c) ==
  IF q = <<>> THEN <<c>>
  ELSE Append([i \in 1..Len(q) |-> [q[i] EXCEPT !.current = FALSE]], c)

\* an effect that neither cleans up nor cancels
PlayingEffectNoCancel(runs, nowPlaying) ==
  /\ lastFrameRef' = IF runs /\ nowPlaying THEN 0 ELSE lastFrameRef
  /\ lastDisplayRef' = IF runs /\ nowPlaying THEN 0 ELSE lastDisplayRef
  /\ rafPending' =
       IF runs /\ nowPlaying
       THEN RequestFrame(rafPending, TickClosure(speedIdx', rows', detParams'))
       ELSE rafPending
  /\ loopSlowTs' = IF runs /\ nowPlaying THEN 0 ELSE loopSlowTs

\* the effect on [playing, tick]: it runs when playing or tick (speedIdx,
\* processed) changed; nowPlaying is the value of playing it sees. Its
\* cleanup cancels the request of the previous run first.
PlayingEffect(runs, nowPlaying) ==
  /\ lastFrameRef' = IF runs /\ nowPlaying THEN 0 ELSE lastFrameRef
  /\ lastDisplayRef' = IF runs /\ nowPlaying THEN 0 ELSE lastDisplayRef
  /\ rafPending' =
       IF ~runs THEN rafPending
       ELSE IF nowPlaying
       THEN RequestFrame(CancelFrame(rafPending), TickClosure(speedIdx', rows', detParams'))
       ELSE CancelFrame(CancelFrame(rafPending))
  /\ loopSlowTs' = IF runs /\ nowPlaying THEN 0 ELSE loopSlowTs

\* a moveCursor that leaves the smoothing filter as it was
MoveCursorKeepFilter(newIdx) ==
  /\ cursorIdxRef' = newIdx
  /\ scrubFill' = CursorFraction(newIdx)
  /\ chartCursor' = CursorFraction(newIdx)
  /\ UNCHANGED <<smoothedCssRef, displayCss>>
  /\ cursorIdx' = newIdx

\* a moveCursor that feeds the smoothing filter instead of resetting it
MoveCursorSmoothing(newIdx) ==
  /\ cursorIdxRef' = newIdx
  /\ scrubFill' = CursorFraction(newIdx)
  /\ chartCursor' = CursorFraction(newIdx)
  /\ smoothedCssRef' = Smoothed(RawCssAt(newIdx), smoothedCssRef)
  /\ displayCss' = smoothedCssRef'
  /\ cursorIdx' = newIdx

\* moveCursor(newIdx)
MoveCursor(newIdx) ==
  /\ cursorIdxRef' = newIdx
  /\ scrubFill' = CursorFraction(newIdx)
  /\ chartCursor' = CursorFraction(newIdx)
  /\ smoothedCssRef' = RawCssAt(newIdx)
  /\ displayCss' = RawCssAt(newIdx)
  /\ cursorIdx' = newIdx

cursorVars == <<cursorIdxRef, scrubFill, chartCursor, smoothedCssRef, displayCss, cursorIdx>>

\* tick(ts): one animation frame, dt ms after the previous one, runs the
\* callback requested first. The callback reads speedIdx and processed from
\* its closure; they are the current ones as long as no stale request is
\* pending (C15).
TickBody(dt) ==
  LET ts == now + dt
      requested == RequestFrame(Tail(rafPending), Head(rafPending))
      last == IF lastFrameRef = 0 THEN ts ELSE lastFrameRef
      due == FrameDue(ts - last)
      newIdx == AdvancedIndex
      slow == due /\ DisplayDue(ts)
      stop == slow /\ EndReached(newIdx)
      \* raw and smoothedCssRef.current are read once, then the filter runs
      smoothed == CHOOSE v \in {Smoothed(p[1], p[2]) :
                                 p \in {<<RawCssAt(newIdx), smoothedCssRef>>}} : TRUE
  IN  /\ rafPending # <<>>
      /\ now' = ts
      /\ ticks' = ticks + 1
      /\ lastFrameRef' = IF due THEN ts ELSE last
      /\ cursorIdxRef' = IF due THEN newIdx ELSE cursorIdxRef
      /\ scrubFill' = IF due THEN CursorFraction(newIdx) ELSE scrubFill
      /\ chartCursor' = IF due THEN CursorFraction(newIdx) ELSE chartCursor
      /\ lastDisplayRef' = IF slow THEN ts ELSE lastDisplayRef
      /\ smoothedCssRef' = IF slow THEN smoothed ELSE smoothedCssRef
      /\ cursorIdx' = IF slow THEN EmittedIndex(newIdx) ELSE cursorIdx
      /\ displayCss' = IF slow THEN smoothed ELSE displayCss
      /\ playing' = IF stop THEN FALSE ELSE playing
      \* requestAnimationFrame(tick), cancelled by the effect when playing fell
      /\ rafPending' = IF stop THEN CancelFrame(CancelFrame(requested)) ELSE requested
      /\ ev' = Ev("tick", due, slow, ts)
      /\ lastSlowTs' = RecentSlow(slow, ts)
      /\ loopSlowTs' = IF slow THEN ts ELSE loopSlowTs
      /\ UNCHANGED <<speedIdx, detectVars, ctrlVars>>

\* a frame of the exploration of Spec, which follows at most MaxTicks frames
Tick(dt) == ticks < MaxTicks /\ TickBody(dt)

\* the component is still mounted: its handlers can be called
Mounted == ev.op # "unmount"

\* the play/pause button: if (atEnd) moveCursor(0); setPlaying(v => !v)
PlayPauseClick(op) ==
  /\ IF AtEnd THEN MoveCursor(0) ELSE UNCHANGED cursorVars
  /\ playing' = ~playing
  /\ UNCHANGED <<speedIdx, now, ticks, lastSlowTs, detectVars, ctrlVars>>
  /\ PlayingEffect(TRUE, ~playing)
  /\ ev' = Ev(op, FALSE, FALSE, now)

Play == Mounted /\ ~playing /\ PlayPauseClick("play")

Pause == Mounted /\ playing /\ PlayPauseClick("pause")

\* setPlaying(false); moveCursor(k), on a request for index req
Seek(op, req, k) ==
  /\ playing' = FALSE
  /\ MoveCursor(k)
  /\ UNCHANGED <<speedIdx, now, ticks, lastSlowTs, detectVars, ctrlVars>>
  /\ PlayingEffect(playing, FALSE)
  /\ ev' = [Ev(op, FALSE, FALSE, now) EXCEPT
              !.req = req, !.repeat = (ev.op = op /\ ev.req = req)]

\* the restart button
Restart == Mounted /\ Seek("seek", 0, 0)

\* the jump-to-end button
JumpToEnd == Mounted /\ Seek("seek", N - 1, N - 1)

\* e.target.value of the range input with min={0} max={processed.length - 1}:
\* the position the user dragged to, kept within min..max by the input
ScrubberValue(pos) == Min(Max(pos, 0), N - 1)

\* the scrubber's onChange: the user drags to any position on or beyond the track
Scrub == Mounted /\ \E pos \in -1..N : Seek("seek", pos, ScrubberValue(pos))

\* a speed button: setSpeedIdx(i)
SetSpeed ==
  \E i \in SpeedChoices :
    /\ Mounted
    /\ speedIdx' = i
    /\ UNCHANGED <<cursorVars, playing, now, ticks, lastSlowTs, detectVars, ctrlVars>>
    /\ PlayingEffect(i # speedIdx, playing)
    /\ ev' = [Ev("speed", FALSE, FALSE, now) EXCEPT !.req = i, !.repeat = (i = speedIdx)]

\* a detection slider: setDetParams, and processed is recomputed
SetDetParams ==
  \E p \in PanelDetParams :
    /\ Mounted
    /\ detParams' = p
    /\ processed' = ProcessedMemo[rows, p]
    /\ UNCHANGED <<rows, called, cursorVars, playing, speedIdx, now, ticks, lastSlowTs,
                   ctrlVars>>
    /\ PlayingEffect(TRUE, playing)
    /\ ev' = Ev("config", FALSE, FALSE, now)

\* an effect that publishes the ref without clamping it
ClampEffectMissing(runs, n) ==
  /\ cursorIdxRef' = cursorIdxRef
  /\ cursorIdx' = IF runs THEN cursorIdxRef' ELSE cursorIdx

\* the effect on [processed.length]: clamp the ref and publish it
ClampEffect(runs, n) ==
  /\ cursorIdxRef' = IF runs THEN Min(cursorIdxRef, n - 1) ELSE cursorIdxRef
  /\ cursorIdx' = IF runs THEN cursorIdxRef' ELSE cursorIdx

\* the rawTelemetry prop is replaced: processed is recomputed, both effects run
ReplaceTelemetry ==
  \E ds \in TelemetryCatalogue :
    /\ Mounted
    /\ rows' = ds
    /\ processed' = ProcessedMemo[ds, detParams]
    /\ ClampEffect(Len(ds) # N, Len(ds))
    /\ UNCHANGED <<detParams, called, scrubFill, chartCursor, smoothedCssRef, displayCss,
                   playing, speedIdx, now, ticks, lastSlowTs, ctrlVars>>
    /\ PlayingEffect(TRUE, playing)
    /\ ev' = Ev("config", FALSE, FALSE, now)

\* the component unmounts: the cleanup of the effect on [playing, tick] runs
Unmount ==
  /\ Mounted
  /\ rafPending' = CancelFrame(rafPending)
  /\ ev' = Ev("unmount", FALSE, FALSE, now)
  /\ UNCHANGED <<refVars, stateVars, domVars, now, ticks, lastSlowTs, loopSlowTs,
                 detectVars, ctrlVars>>

Next ==
  \/ \E dt \in FrameGaps : Tick(dt)
  \/ Play
  \/ Pause
  \/ Restart
  \/ JumpToEnd
  \/ Scrub
  \/ SetSpeed
  \/ SetDetParams
  \/ ReplaceTelemetry
  \/ Unmount

Spec == Init /\ [][Next]_vars

\* ------------------------------------------------------------------------
\* Uninterrupted playback: the user picks a speed and a start position, presses
\* play and then leaves the controls alone; the browser keeps delivering the
\* animation frames that were requested.
\* ------------------------------------------------------------------------
\* the controls used before play is pressed
LiveSetup == ~playing /\ ticks = 0 /\ ev.op # "play" /\ (Scrub \/ SetSpeed)

\* play is pressed once
StartPlayback == ticks = 0 /\ ev.op # "play" /\ Play

\* requestAnimationFrame: a requested callback that is not cancelled is run
LiveTick == \E dt \in FrameGaps : ticks < MaxLiveTicks /\ TickBody(dt)

NextLive ==
  \/ LiveSetup
  \/ StartPlayback
  \/ LiveTick

SpecLive == Init /\ [][NextLive]_vars /\ WF_vars(LiveTick)

\* ------------------------------------------------------------------------
\* Specification of the tuning pipeline of SimulationEngine: processed is
\* recompute(rawTelemetry, detParams) and ctrlOutputs is
\* runController(processed, ctrlParams, ...), both recomputed when a slider
\* moves. outputs holds the whole ctrlOutputs array here.
\* ------------------------------------------------------------------------
PipeRowSeqs == UNION {[1..n -> RowCatalogue] : n \in 0..MaxPipeRows}

\* window sizes of the panel: a single sample, a pair, more than the rows
PipeWindows == {1, 2, 4}

\* detection settings of the panel: every weight triple and threshold
PipeDetParams ==
  {[p EXCEPT !.minDurationSamples = w] : p \in DetParamSet, w \in PipeWindows}

\* controller settings of the panel: the valid ones that mitigate from the
\* second row on
PipeCtrlArgs ==
  {a \in CtrlArgSet : ~InvalidParams(a.params) /\ a.params.holdoffSamples = 1}

\* a controller that reads the severity of flagged rows only
CssColumnFlagged(ps) ==
  [i \in 1..Len(ps) |-> IF ps[i].computed_flag THEN ps[i].computed_css ELSE Zero]

\* const css = rows[i].computed_css, for every i
CssColumn(ps) == [i \in 1..Len(ps) |-> ps[i].computed_css]

\* computed_flag of every row
FlagColumn(ps) == [i \in 1..Len(ps) |-> ps[i].computed_flag]

\* useMemo(() => runController(processed, ctrlParams, nominalWob, nominalRpm))
CtrlOutputsMemo(ps, a) == RunController(CssColumn(ps), a)

InitPipe ==
  /\ rows \in PipeRowSeqs
  /\ detParams \in PipeDetParams
  /\ processed = Recompute(rows, detParams)
  /\ called = TRUE
  /\ ctrlArgs \in PipeCtrlArgs
  /\ ci = 0
  /\ mem = CtrlInit(ctrlArgs)
  /\ cssSeen = <<>>
  /\ outputs = CtrlOutputsMemo(processed, ctrlArgs)
  /\ PlayIdle

\* the threshold and window sliders: setDetParams, then both memos recompute.
\* ev.repeat tells whether every computed_flag came out as before.
SetDetectionSliders ==
  \E th \in {DefaultDetParams.cssThreshold, <<3, 5>>}, w \in PipeWindows :
    LET p == [detParams EXCEPT !.cssThreshold = th, !.minDurationSamples = w]
        ps == Recompute(rows, p)
    IN  /\ p # detParams
        /\ detParams' = p
        /\ processed' = ps
        /\ outputs' = CtrlOutputsMemo(ps, ctrlArgs)
        /\ ev' = [Ev("retune", FALSE, FALSE, now) EXCEPT
                    !.repeat = (FlagColumn(ps) = FlagColumn(processed))]
        /\ UNCHANGED <<rows, called, ctrlArgs, ci, mem, cssSeen>>
        /\ UNCHANGED <<refVars, stateVars, domVars, rafPending, now, ticks,
                       lastSlowTs, loopSlowTs>>

\* a controller slider: setCtrlParams, then ctrlOutputs recomputes
SetControllerSliders ==
  \E a \in PipeCtrlArgs :
    /\ a # ctrlArgs
    /\ ctrlArgs' = a
    /\ mem' = CtrlInit(a)
    /\ outputs' = CtrlOutputsMemo(processed, a)
    /\ ev' = Ev("controller", FALSE, FALSE, now)
    /\ UNCHANGED <<detectVars, ci, cssSeen>>
    /\ UNCHANGED <<refVars, stateVars, domVars, rafPending, now, ticks,
                   lastSlowTs, loopSlowTs>>

NextPipe ==
  \/ SetDetectionSliders
  \/ SetControllerSliders

SpecPipe == InitPipe /\ [][NextPipe]_vars

\* ------------------------------------------------------------------------
\* Specification of recompute under a rescaling of the weights: recompute runs
\* with weights (a, b, c), then the caller multiplies the three weights by k
\* and it runs again. All numbers are doubles here.
\* ------------------------------------------------------------------------
\* rows: all channels null, mwd_ssi = 1 alone, torque_deviation = 2 alone
QuietRowD == [mwd_ssi |-> <<>>, torque_deviation |-> <<>>, rpm_ssi |-> <<>>]
MwdRowD == [mwd_ssi |-> FInt(1), torque_deviation |-> <<>>, rpm_ssi |-> <<>>]
TorqueRowD == [mwd_ssi |-> <<>>, torque_deviation |-> FInt(2), rpm_ssi |-> <<>>]
RowCatalogueD == {QuietRowD, MwdRowD, TorqueRowD}

RowSeqsD == UNION {[1..n -> RowCatalogueD] : n \in 0..MaxScaleRows}

\* weight triples: the defaults (0.6, 0.3, 0.1), torque and RPM only
\* (0, 0.15, 0.45), MWD only (1, 0, 0)
WeightSetD ==
  {<<FLit(3, 5), FLit(3, 10), FLit(1, 10)>>,
   <<FZero, FLit(3, 20), FLit(9, 20)>>,
   <<FOne, FZero, FZero>>}

\* thresholds 0.25 (the default) and 0.6, windows of one and two samples
DetParamSetD ==
  {[mwdWeight |-> wt[1], torqueWeight |-> wt[2], rpmWeight |-> wt[3],
    cssThreshold |-> th, minDurationSamples |-> w] :
     wt \in WeightSetD, th \in {FLit(1, 4), FLit(3, 5)}, w \in {1, 2}}

\* scale factors k: 2 (a power of two), 3 and 10
ScaleSet == {FInt(2), FInt(3), FInt(10)}

\* the params with the weights (k*a, k*b, k*c)
ScaledParams(p, k) ==
  [p EXCEPT !.mwdWeight = FMul(k, p.mwdWeight),
            !.torqueWeight = FMul(k, p.torqueWeight),
            !.rpmWeight = FMul(k, p.rpmWeight)]

InitScale ==
  /\ rows \in RowSeqsD
  /\ detParams \in DetParamSetD
  /\ processed = RecomputeD(rows, detParams)
  /\ called = TRUE
  /\ CtrlIdle
  /\ PlayIdle

\* recompute is called again with the weights multiplied by k. ev.repeat
\* tells whether the result is the same array as before.
ScaleWeights ==
  \E k \in ScaleSet :
    LET ps == RecomputeD(rows, ScaledParams(detParams, k))
    IN  /\ ev.op = "mount"
        /\ detParams' = ScaledParams(detParams, k)
        /\ processed' = ps
        /\ ev' = [Ev("scale", FALSE, FALSE, now) EXCEPT !.repeat = (ps = processed)]
        /\ UNCHANGED <<rows, called, ctrlVars>>
        /\ UNCHANGED <<refVars, stateVars, domVars, rafPending, now, ticks,
                       lastSlowTs, loopSlowTs>>

NextScale == ScaleWeights

SpecScale == InitScale /\ [][NextScale]_vars

\* ========================================================================
\* Properties of recompute (checked under SpecDetect)
\* ========================================================================
\* number of false->true transitions of computed_flag in indices 1..i
RisingEdges(i) ==
  Cardinality({k \in 1..i : /\ processed[k].computed_flag
                            /\ (k = 1 \/ ~processed[k - 1].computed_flag)})

\* the severity of row j is at or above the threshold
RawAt(j) == RGe(processed[j].computed_css, detParams.cssThreshold)

\* C1: computed_event_id is 0 wherever computed_flag is false, and wherever
\* computed_flag is true it is the number of false->true transitions of
\* computed_flag up to and including that index.
C1_EventIdCountsRisingEdges ==
  called =>
    \A i \in 1..Len(processed) :
      processed[i].computed_event_id =
        IF processed[i].computed_flag THEN RisingEdges(i) ELSE 0

\* C1 witness: a result with two events, the first at least two samples long
C1_Witness ==
  /\ called
  /\ \E i \in 1..Len(processed) : \E j \in 1..Len(processed) :
       /\ i + 1 < j
       /\ processed[i].computed_event_id = 1
       /\ processed[i + 1].computed_event_id = 1
       /\ processed[j].computed_event_id = 2

\* C2: computed_flag at index i is true exactly when a full window of
\* minDurationSamples samples ends at i and every sample of it has a severity
\* at or above the threshold (1-based: the window is i-w+1..i and needs i >= w).
C2_SustainedIsFullWindow ==
  called =>
    \A i \in 1..Len(processed) :
      processed[i].computed_flag <=>
        /\ i >= detParams.minDurationSamples
        /\ \A j \in (i - detParams.minDurationSamples + 1)..i : RawAt(j)

\* C2 witness: a window of at least 2 with a sustained sample, and a sample
\* above the threshold that is not sustained although a full window ends there
C2_Witness ==
  /\ called
  /\ detParams.minDurationSamples >= 2
  /\ \E i \in 1..Len(processed) : processed[i].computed_flag
  /\ \E i \in 1..Len(processed) :
       /\ i >= detParams.minDurationSamples
       /\ RawAt(i)
       /\ ~processed[i].computed_flag

\* C3: every computed_css lies in [0, 1] (weights non-negative, positive sum).
C3_CssInUnitInterval ==
  called =>
    \A i \in 1..Len(processed) :
      /\ RLe(Zero, processed[i].computed_css)
      /\ RLe(processed[i].computed_css, One)

\* C27: the 'events detected' count, eventCount, is the number of events of
\* the processed sequence: the number of false->true transitions of
\* computed_flag, which is the largest computed_event_id, whether or not the
\* last sample belongs to an event.
C27_EventCountIsNumberOfEvents ==
  called =>
    /\ EventCount = RisingEdges(Len(processed))
    /\ \A i \in 1..Len(processed) : processed[i].computed_event_id <= EventCount

\* clamp01(x) = max(0, min(1, x))
Clamp01(x) == RMax(Zero, RMin(One, x))

\* the score as the claim states it, on the telemetry row r
ClaimedCss(r, params) ==
  LET total == WeightTotal(params)
      wM == RDiv(params.mwdWeight, total)
      wT == RDiv(params.torqueWeight, total)
      wR == RDiv(params.rpmWeight, total)
  IN  Clamp01(RAdd(RAdd(RMul(wM, OrZero(r.mwd_ssi)),
                        RMul(wT, Clamp01(RMul(Half, OrZero(r.torque_deviation))))),
                   RMul(wR, Clamp01(RMul(Half, OrZero(r.rpm_ssi))))))

\* C23: for every row and valid weights, computed_css is
\* clamp01(wM*mwd + wT*clamp01(0.5*torque_deviation) + wR*clamp01(0.5*rpm_ssi))
\* with the weights normalized by their sum and every absent channel taken as
\* 0; a row whose three channels are all absent scores 0.
C23_CssIsClampedWeightedSum ==
  called =>
    /\ Len(processed) = Len(rows)
    /\ \A i \in 1..Len(processed) :
         /\ processed[i].computed_css = ClaimedCss(rows[i], detParams)
         /\ rows[i] = QuietRow => processed[i].computed_css = Zero

\* ========================================================================
\* Properties of runController (checked under SpecCtrl)
\* ========================================================================
\* the newest entry of outputs[] and of rows[].computed_css
LastOut == outputs[Len(outputs)]
LastCss == cssSeen[Len(cssSeen)]

\* the holdoff window d..d+h ends at the newest sample; the state before d
HoldoffOf == ctrlArgs.params.holdoffSamples
WindowFrom == Len(outputs) - HoldoffOf
StateBeforeWindow ==
  IF ci = HoldoffOf + 1 THEN "NORMAL" ELSE outputs[WindowFrom - 1].state

\* NORMAL before d, and severity at or above ssiEngage at every index d..d+h
EngagedThroughWindow ==
  /\ HoldoffOf >= 1
  /\ ci >= HoldoffOf + 1
  /\ StateBeforeWindow = "NORMAL"
  /\ \A k \in WindowFrom..Len(cssSeen) : RGe(cssSeen[k], ctrlArgs.params.ssiEngage)

\* C4: with holdoffSamples h >= 1, NORMAL before index d and severity at or
\* above ssiEngage at d..d+h, the state is DETECTING at d..d+h-1 and
\* MITIGATING at d+h.
C4_HoldoffThenMitigating ==
  EngagedThroughWindow =>
    /\ \A k \in WindowFrom..(Len(outputs) - 1) : outputs[k].state = "DETECTING"
    /\ LastOut.state = "MITIGATING"

\* C4 witness: a holdoff of 2 confirmed in mid-sequence
C4_Witness ==
  /\ EngagedThroughWindow
  /\ HoldoffOf = 2
  /\ ci > HoldoffOf + 1
  /\ LastOut.state = "MITIGATING"

\* the proportional law as the claim states it
ClaimedExcess == RMax(Zero, RSub(LastCss, ctrlArgs.params.ssiEngage))
ClaimedWob ==
  RMax(RMul(ctrlArgs.nominalWob, ctrlArgs.params.wobMinFraction),
       RSub(ctrlArgs.nominalWob,
            RMul(RMul(ctrlArgs.params.kpWob, ClaimedExcess), ctrlArgs.nominalWob)))
ClaimedRpm ==
  RMin(RAdd(ctrlArgs.nominalRpm, ctrlArgs.params.rpmMaxIncrease),
       RAdd(ctrlArgs.nominalRpm,
            RMul(RMul(ctrlArgs.params.kpRpm, ClaimedExcess), <<10, 1>>)))

\* C5: every output whose state is MITIGATING carries the proportional
\* setpoints of its own severity, the first MITIGATING sample included.
C5_MitigatingCarriesLaw ==
  (ci >= 1 /\ LastOut.state = "MITIGATING") =>
    /\ LastOut.wob_setpoint = ClaimedWob
    /\ LastOut.rpm_setpoint = ClaimedRpm

\* C6: every output whose state is NORMAL or DETECTING carries the nominal
\* setpoints.
C6_NoActuationOutsideMitigation ==
  (ci >= 1 /\ LastOut.state \in {"NORMAL", "DETECTING"}) =>
    /\ LastOut.wob_setpoint = ctrlArgs.nominalWob
    /\ LastOut.rpm_setpoint = ctrlArgs.nominalRpm

\* C6 witness: DETECTING entered again right after a recovery that ramped
\* from below nominal ended in NORMAL
C6_Witness ==
  /\ Len(outputs) >= 3
  /\ LastOut.state = "DETECTING"
  /\ outputs[Len(outputs) - 1].state = "NORMAL"
  /\ outputs[Len(outputs) - 2].state = "RECOVERING"
  /\ outputs[Len(outputs) - 2].wob_setpoint # ctrlArgs.nominalWob

\* the output before the newest one, and the index of the newest sample
PrevOut == outputs[Len(outputs) - 1]
LastIdx == ci - 1

\* the parameters the claim calls valid
ValidForRecovery(a) ==
  /\ RLe(a.params.ssiRecovery, a.params.ssiEngage)
  /\ RGt(a.params.wobMinFraction, Zero)
  /\ RLe(a.params.wobMinFraction, One)
  /\ RGe(a.params.rpmMaxIncrease, Zero)
  /\ RGt(a.nominalWob, Zero)

AllowedNext(s) ==
  CASE s = "NORMAL" -> {"NORMAL", "DETECTING"}
    [] s = "DETECTING" -> {"DETECTING", "NORMAL", "MITIGATING"}
    [] s = "MITIGATING" -> {"MITIGATING", "RECOVERING"}
    [] s = "RECOVERING" -> {"RECOVERING", "MITIGATING", "NORMAL"}

\* C28: for every severity sequence the first output is NORMAL or DETECTING
\* and consecutive outputs follow only the transitions NORMAL -> {NORMAL,
\* DETECTING}, DETECTING -> {DETECTING, NORMAL, MITIGATING}, MITIGATING ->
\* {MITIGATING, RECOVERING}, RECOVERING -> {RECOVERING, MITIGATING, NORMAL}.
C28_OnlyListedTransitions ==
  /\ ci = 1 => LastOut.state \in {"NORMAL", "DETECTING"}
  /\ ci >= 2 => LastOut.state \in AllowedNext(PrevOut.state)

\* C28 witness: a recovery interrupted by a severity at or above ssiEngage
\* went back to MITIGATING
C28_Witness ==
  /\ ci >= 2
  /\ PrevOut.state = "RECOVERING"
  /\ LastOut.state = "MITIGATING"

\* C29: when the state before index i is MITIGATING, the output state at i is
\* RECOVERING if severity[i] < ssiRecovery and MITIGATING otherwise; when the
\* state before i is RECOVERING and severity[i] >= ssiEngage, the output state
\* at i is MITIGATING, however far the recovery has progressed.
C29_HysteresisGuards ==
  ci >= 2 =>
    /\ PrevOut.state = "MITIGATING" =>
         LastOut.state =
           IF RLt(LastCss, ctrlArgs.params.ssiRecovery) THEN "RECOVERING" ELSE "MITIGATING"
    /\ (PrevOut.state = "RECOVERING" /\ RGe(LastCss, ctrlArgs.params.ssiEngage)) =>
         LastOut.state = "MITIGATING"

\* C29 witness: a recovery that was already ramping (12 samples or more after
\* its start, setpoint still below nominal) was sent back to MITIGATING
C29_Witness ==
  /\ ci >= 2
  /\ PrevOut.state = "RECOVERING"
  /\ LastOut.state = "MITIGATING"
  /\ LastIdx - mem.recoveryStartIdx > 12
  /\ RLt(LastOut.wob_setpoint, ctrlArgs.nominalWob)

\* the setpoints the ramp gives after those of the previous output
RampedWob ==
  RMin(ctrlArgs.nominalWob,
       RAdd(PrevOut.wob_setpoint, RMul(<<1, 125>>, ctrlArgs.nominalWob)))
RampedRpm == RMax(ctrlArgs.nominalRpm, RSub(PrevOut.rpm_setpoint, <<1, 2>>))

\* C30: while RECOVERING with recoverStart = r and no severity >= ssiEngage:
\* at an index i with i - r < 12 the output repeats the setpoints of the
\* previous output (so those of index r); at an index with i - r >= 12
\* wob_setpoint rises by 0.008*nominalWob (capped at nominalWob) and
\* rpm_setpoint falls by 0.5 (floored at nominalRpm); the output is NORMAL with
\* nominal setpoints exactly when the ramped wob_setpoint is >= 0.98*nominalWob.
C30_HoldThenRamp ==
  (ci >= 2 /\ PrevOut.state = "RECOVERING" /\ RLt(LastCss, ctrlArgs.params.ssiEngage)) =>
    IF LastIdx - mem.recoveryStartIdx < 12
    THEN LastOut = PrevOut
    ELSE IF RGe(RampedWob, RMul(<<49, 50>>, ctrlArgs.nominalWob))
    THEN LastOut = [state |-> "NORMAL", wob_setpoint |-> ctrlArgs.nominalWob,
                    rpm_setpoint |-> ctrlArgs.nominalRpm]
    ELSE LastOut = [state |-> "RECOVERING", wob_setpoint |-> RampedWob,
                    rpm_setpoint |-> RampedRpm]

\* C30 witness: a ramp that took more than one step ended in NORMAL from a
\* setpoint below nominal
C30_Witness ==
  /\ ci >= 2
  /\ PrevOut.state = "RECOVERING"
  /\ LastOut.state = "NORMAL"
  /\ LastIdx - mem.recoveryStartIdx > 12
  /\ RLt(PrevOut.wob_setpoint, RMul(<<49, 50>>, ctrlArgs.nominalWob))

\* C31: the holdoff is a lower bound on confirmation. Whenever the output is
\* DETECTING at i-1 and MITIGATING at i, at least holdoffSamples samples have
\* passed since the detection started and severity[j] >= ssiEngage for every j
\* in i-holdoffSamples..i; a sample below ssiEngage while DETECTING returns the
\* controller to NORMAL; and a crossing in NORMAL starts the holdoff count at
\* its own index.
C31_HoldoffIsLowerBound ==
  /\ (ci >= 2 /\ PrevOut.state = "DETECTING" /\ LastOut.state = "MITIGATING") =>
       /\ LastIdx - mem.detectionStartIdx >= HoldoffOf
       /\ Len(cssSeen) >= HoldoffOf + 1
       /\ \A k \in (Len(cssSeen) - HoldoffOf)..Len(cssSeen) :
            RGe(cssSeen[k], ctrlArgs.params.ssiEngage)
  /\ (ci >= 2 /\ PrevOut.state = "DETECTING"
        /\ RLt(LastCss, ctrlArgs.params.ssiEngage)) => LastOut.state = "NORMAL"
  /\ (ci >= 1 /\ LastOut.state = "DETECTING"
        /\ (ci = 1 \/ PrevOut.state = "NORMAL")) => mem.detectionStartIdx = LastIdx

\* C31 witness: a detection was confirmed whose holdoff count started anew in
\* mid-sequence, right after a sample below ssiEngage
C31_Witness ==
  /\ ci >= 2
  /\ HoldoffOf = 1
  /\ Len(outputs) = 3
  /\ outputs[1].state = "NORMAL"
  /\ PrevOut.state = "DETECTING"
  /\ LastOut.state = "MITIGATING"
  /\ mem.detectionStartIdx >= 2

\* the parameters are valid: thresholds ordered, gains not negative, floor
\* fraction in (0, 1], RPM increase not negative, nominal WOB not negative
ValidParams(a) ==
  /\ ~InvalidParams(a.params)
  /\ RLe(a.params.wobMinFraction, One)
  /\ RGe(a.params.rpmMaxIncrease, Zero)
  /\ RGe(a.nominalWob, Zero)

\* C32: for valid parameters every output, in every state, has
\* nominalWob*wobMinFraction <= wob_setpoint <= nominalWob and
\* nominalRpm <= rpm_setpoint <= nominalRpm + rpmMaxIncrease.
C32_SetpointsWithinLimits ==
  (ci >= 1 /\ ValidParams(ctrlArgs)) =>
    /\ RLe(RMul(ctrlArgs.nominalWob, ctrlArgs.params.wobMinFraction), LastOut.wob_setpoint)
    /\ RLe(LastOut.wob_setpoint, ctrlArgs.nominalWob)
    /\ RLe(ctrlArgs.nominalRpm, LastOut.rpm_setpoint)
    /\ RLe(LastOut.rpm_setpoint, RAdd(ctrlArgs.nominalRpm, ctrlArgs.params.rpmMaxIncrease))

\* C32 witness: a mitigation at the WOB floor and the RPM cap
C32_Witness ==
  /\ ci >= 1
  /\ ValidParams(ctrlArgs)
  /\ LastOut.state = "MITIGATING"
  /\ LastOut.wob_setpoint = RMul(ctrlArgs.nominalWob, ctrlArgs.params.wobMinFraction)
  /\ LastOut.rpm_setpoint = RAdd(ctrlArgs.nominalRpm, ctrlArgs.params.rpmMaxIncrease)

\* ========================================================================
\* Properties of the playback scheduler (checked under Spec)
\* ========================================================================
\* the step is a tick
IsTick == ticks' = ticks + 1

\* the tick advanced the cursor by the selected speed and wrote the fast channel
Advanced ==
  /\ cursorIdxRef' = Min(cursorIdxRef + SPEEDS[speedIdx + 1], N - 1)
  /\ scrubFill' = CursorFraction(cursorIdxRef')
  /\ chartCursor' = CursorFraction(cursorIdxRef')

\* C7: with N >= 1 rows the playback cursor always satisfies
\* 0 <= cursorIdxRef <= N - 1.
C7_CursorInRange == N >= 1 => cursorIdxRef \in 0..(N - 1)

\* C7 witness: the dataset was replaced by a one-row dataset while the cursor
\* stood beyond its end (the fill still shows the old position)
C7_Witness ==
  /\ ev.op = "config"
  /\ N = 1
  /\ cursorIdxRef = 0
  /\ scrubFill # Zero

C9_ThrottleAlways == (ev.op = "tick" /\ ev.slow) => ~ev.early

\* C9 amended: a tick emits the slow channel only if at least 66 ms have
\* passed since the previous emission of the same run of the tick loop.
C9_ThrottleWithinLoop == (ev.op = "tick" /\ ev.slow) => ~ev.earlyInLoop

\* C9 witness: a second emission in one run of the loop
C9_Witness ==
  /\ ev.op = "tick"
  /\ ev.again
  /\ ~ev.earlyInLoop

\* C10: a tick that stops playback leaves the cursor at N - 1 and has emitted
\* the slow channel with index N - 1.
C10_StopsOnlyAtEnd ==
  (ev.op = "tick" /\ ~playing) =>
    /\ cursorIdxRef = N - 1
    /\ cursorIdx = N - 1
    /\ ev.slow

\* C10 witness: a tick stopped playback of a dataset of more than one row
C10_Witness ==
  /\ ev.op = "tick"
  /\ ~playing
  /\ N > 1

\* the requested index brought into the valid range
Clamped(k) == Min(Max(k, 0), N - 1)

\* C11: after seek(k), for every requested k, the scheduler is stopped, the
\* cursor is min(max(k, 0), N - 1), the slow-channel index equals the cursor
\* and the smoothed severity is the severity at the cursor.
C11_SeekStopsAndResyncs ==
  ev.op = "seek" =>
    /\ ~playing
    /\ cursorIdxRef = Clamped(ev.req)
    /\ cursorIdx = cursorIdxRef
    /\ smoothedCssRef = processed[cursorIdxRef + 1].computed_css
    /\ displayCss = smoothedCssRef
    /\ scrubFill = CursorFraction(cursorIdxRef)
    /\ chartCursor = CursorFraction(cursorIdxRef)

\* C11 witness: after playback had run, the scrubber was dragged beyond the
\* end of the track onto a row of non-zero severity
C11_Witness ==
  /\ ev.op = "seek"
  /\ ev.req = N
  /\ N > 1
  /\ lastFrameRef # 0
  /\ smoothedCssRef # Zero

\* C12: play() issued while stopped at cursor N - 1 rewinds the cursor to 0
\* and starts playing; issued while stopped at a cursor below N - 1 it starts
\* playing with the cursor unchanged.
C12_PlayRewindsOnlyAtEnd ==
  [][(~playing /\ ev'.op = "play") =>
       /\ playing'
       /\ cursorIdxRef' = IF cursorIdxRef = N - 1 THEN 0 ELSE cursorIdxRef]_vars

\* C13: pause() issued while playing stops the scheduler and leaves the
\* cursor, the speed and the smoothed severity exactly as they were.
C13_PauseKeepsCursorAndFilter ==
  [][(playing /\ ev'.op = "pause") =>
       /\ ~playing'
       /\ UNCHANGED <<cursorIdxRef, speedIdx, smoothedCssRef>>]_vars

\* C14: a change of the detection parameters replaces the processed array and
\* leaves playing and the speed unchanged, leaves the cursor at its old value
\* clamped into the new range, and leaves the slow channel showing the new
\* array's entry at the cursor.
C14_ReconfigurationResyncs ==
  [][(ev'.op = "config" /\ detParams' # detParams) =>
       /\ playing' = playing
       /\ speedIdx' = speedIdx
       /\ cursorIdxRef' = Min(cursorIdxRef, Len(processed') - 1)
       /\ SlowRow' = processed'[cursorIdxRef' + 1]]_vars

\* C15: while the scheduler is stopped or torn down no tick is requested (so
\* none runs until the next play()); at most one request is pending at any
\* moment; and a pending request closes over the current speed and the
\* current processed array, never over those of before a speed change or a
\* reconfiguration.
C15_NoDanglingTick ==
  /\ (~playing \/ ~Mounted) => rafPending = <<>>
  /\ Len(rafPending) <= 1
  /\ \A i \in 1..Len(rafPending) :
       /\ rafPending[i].speedIdx = speedIdx
       /\ rafPending[i].rows = rows
       /\ rafPending[i].detParams = detParams

\* C15 witness: pause() after the loop had emitted, with nothing left pending
C15_Witness ==
  /\ ev.op = "pause"
  /\ lastDisplayRef # 0
  /\ rafPending = <<>>

\* C16: while the scheduler stays playing with no seek and no replacement of
\* the data, the cursor never decreases from one step to the next, and each
\* advancing tick writes the fraction of its new cursor to the fast channel;
\* so the values successive ticks write are non-decreasing.
C16_FastChannelMonotone ==
  [][(playing /\ ev'.op \in {"tick", "config", "speed"} /\ UNCHANGED <<rows, detParams>>) =>
       /\ cursorIdxRef' >= cursorIdxRef
       /\ (ev'.op = "tick" /\ ev'.due) =>
            /\ scrubFill' = CursorFraction(cursorIdxRef')
            /\ chartCursor' = CursorFraction(cursorIdxRef')
            /\ RGe(scrubFill', CursorFraction(cursorIdxRef))]_vars

\* C16 witness: in one run of the loop a tick emitted and a later tick
\* advanced the cursor to the last row
C16_Witness ==
  /\ ev.op = "tick"
  /\ ev.due
  /\ ~ev.slow
  /\ playing
  /\ lastDisplayRef # 0
  /\ N > 1
  /\ cursorIdxRef = N - 1

\* C17: a slow-channel emission made by a tick carries the index the fast
\* channel holds at that tick; while playing the slow-channel index never
\* exceeds the cursor; and a tick never lowers the slow-channel index.
C17_SlowChannelFollowsFast ==
  [][/\ (IsTick /\ ev'.slow) =>
          /\ cursorIdx' = cursorIdxRef'
          /\ scrubFill' = CursorFraction(cursorIdx')
          /\ chartCursor' = CursorFraction(cursorIdx')
     /\ playing' => cursorIdx' <= cursorIdxRef'
     /\ IsTick => cursorIdx' >= cursorIdx]_vars

\* C17 witness: the second emission of one run of the loop, at a higher index
\* than the first
C17_Witness ==
  /\ ev.op = "tick"
  /\ ev.again
  /\ cursorIdx = cursorIdxRef
  /\ cursorIdx > 1

\* C19: seek(k) issued right after seek(k) leaves the cursor, the play state,
\* the smoothed severity, both channels and the row shown as the first left
\* them.
C19_SeekIdempotent ==
  [][(ev'.op = "seek" /\ ev'.repeat) =>
       /\ UNCHANGED <<cursorIdxRef, cursorIdx, playing, smoothedCssRef, displayCss,
                      scrubFill, chartCursor>>
       /\ SlowRow' = SlowRow]_vars

\* C19 witness: a second seek to the same row of non-zero severity, after
\* playback had run
C19_Witness ==
  /\ ev.op = "seek"
  /\ ev.repeat
  /\ lastFrameRef # 0
  /\ smoothedCssRef # Zero

\* C26: whenever the scheduler is stopped (initially, after pause, after a
\* seek, after reaching the end) the slow-channel index cursorIdx, from which
\* the displayed row and controller output are read, equals the fast-channel
\* cursor cursorIdxRef.
C26_StoppedChannelsAgree == ~playing => cursorIdx = cursorIdxRef

\* C24: a tick that emits the slow channel sets smoothedSeverity to
\* alpha*raw + (1 - alpha)*smoothedSeverity, where raw is the severity at the
\* (new) cursor and alpha is 0.4 if raw > smoothedSeverity and 0.08
\* otherwise, and publishes that value; a tick that does not emit the slow
\* channel leaves smoothedSeverity and the published value unchanged.
C24_FilterUpdatesOnEmission ==
  [][IsTick =>
       LET raw == processed[cursorIdxRef' + 1].computed_css
           alpha == IF RGt(raw, smoothedCssRef) THEN <<2, 5>> ELSE <<2, 25>>
       IN  IF ev'.slow
           THEN /\ smoothedCssRef' =
                     RAdd(RMul(alpha, raw), RMul(RSub(One, alpha), smoothedCssRef))
                /\ displayCss' = smoothedCssRef'
           ELSE UNCHANGED <<smoothedCssRef, displayCss>>]_vars

\* C24 witness: an emission took the release branch (the filter was above the
\* severity at the cursor, and still is)
C24_Witness ==
  /\ ev.op = "tick"
  /\ ev.slow
  /\ RGt(smoothedCssRef, RawCssAt(cursorIdxRef))
  /\ displayCss = smoothedCssRef

\* C33: setSpeed(m) changes the speed and nothing else of the playback
\* state: the cursor, the slow-channel index, playing and the smoothed
\* severity stay as they were; and every cursor advance, so the first one
\* after a setSpeed too, moves the cursor by the speed selected last
\* (clamped at N - 1), not by an earlier one.
C33_SetSpeedTakesEffectNextTick ==
  [][/\ ev'.op = "speed" =>
          /\ speedIdx' = ev'.req
          /\ UNCHANGED <<cursorIdxRef, cursorIdx, playing, smoothedCssRef, displayCss>>
     /\ (IsTick /\ ev'.due) =>
          cursorIdxRef' = Min(cursorIdxRef + SPEEDS[speedIdx + 1], N - 1)]_vars

\* C33 witness: the speed was changed from 5x to 1x while playing, with a
\* frame pending
C33_Witness ==
  /\ ev.op = "speed"
  /\ ~ev.repeat
  /\ playing
  /\ speedIdx = 0
  /\ rafPending # <<>>
  /\ N > 1

\* C34: playback that is left alone ends: once the scheduler is playing over
\* N >= 1 samples and frames keep coming, it eventually is stopped with the
\* cursor on the last sample.
C34_PlaybackReachesEnd ==
  (playing /\ N >= 1) ~>
    (~playing /\ cursorIdxRef = N - 1 /\ cursorIdx = N - 1 /\ rafPending = <<>>)

\* C34 witness: a playback of several samples that stopped at the end after
\* more frames than one frame per sample
C34_Witness ==
  /\ ~playing
  /\ ev.op = "tick"
  /\ N > 1
  /\ cursorIdxRef = N - 1
  /\ speedIdx = 0
  /\ ticks > N + 1

\* C36: the single-pass reference: the number of consecutive raw-true samples
\* ending at sample i (reset to 0 on a false)
RECURSIVE RunningCount(_)
RunningCount(i) ==
  IF i = 0 THEN 0
  ELSE IF RawAt(i) THEN RunningCount(i - 1) + 1
  ELSE 0

\* C36: for every window w >= 1 the nested-window scan of recompute flags
\* exactly the samples the single-pass reference flags: sustained[i] iff the
\* running count of consecutive raw-true samples at i is at least w.
C36_ScanEqualsRunningCount ==
  (called /\ detParams.minDurationSamples >= 1) =>
    FlagColumn(processed) =
      [i \in 1..Len(processed) |-> RunningCount(i) >= detParams.minDurationSamples]

\* C36 witness: a window of at least 2, a run long enough to be flagged, and
\* a later raw-true sample whose count was reset by a false in between
C36_Witness ==
  /\ called
  /\ detParams.minDurationSamples >= 2
  /\ \E i \in 1..Len(processed) :
       /\ processed[i].computed_flag
       /\ \E j \in (i + 1)..Len(processed) :
            /\ ~RawAt(j)
            /\ \E k \in (j + 1)..Len(processed) :
                 RawAt(k) /\ ~processed[k].computed_flag

\* ========================================================================
\* Properties of the tuning pipeline (checked under SpecPipe)
\* ========================================================================
\* C35: the controller depends on the detection pass only through the
\* severities: when the detection parameters change in cssThreshold and/or
\* minDurationSamples only (same rows, same weights, same controller
\* arguments), the ControllerOutput array comes out identical, whatever
\* happens to computed_flag and computed_event_id.
C35_ControllerSeesOnlySeverity ==
  [][(/\ rows' = rows
      /\ ctrlArgs' = ctrlArgs
      /\ detParams'.mwdWeight = detParams.mwdWeight
      /\ detParams'.torqueWeight = detParams.torqueWeight
      /\ detParams'.rpmWeight = detParams.rpmWeight)
     => outputs' = outputs]_vars

\* C35 witness: a threshold or window change that changed the flags, on rows
\* that drive the controller into MITIGATING while no row is flagged
C35_Witness ==
  /\ ev.op = "retune"
  /\ ~ev.repeat
  /\ \E i \in 1..Len(outputs) : outputs[i].state = "MITIGATING"
  /\ \A i \in 1..Len(processed) : ~processed[i].computed_flag

\* ========================================================================
\* Properties of recompute under a rescaling of the weights (checked under
\* SpecScale)
\* ========================================================================
\* the step is the second call of recompute, with the weights multiplied by k
IsScale == ev.op = "mount" /\ ev'.op = "scale"

\* 1e-9
ToleranceD == FLit(1, 1000000000)

\* the rounding allowance of a row: 1e-9 * max(1, |mwd_ssi|)
RowToleranceD(r) == FMul(ToleranceD, FMax(FOne, FAbs(OrZeroD(r.mwd_ssi))))

\* |a - b| <= tol
CloseD(a, b, tol) == FLe(FAbs(FSub(a, b)), tol)

\* some row's severity lies within the rounding allowance of the threshold
NearThreshold(ps) ==
  \E i \in 1..Len(ps) :
    CloseD(ps[i].computed_css, detParams.cssThreshold, RowToleranceD(rows[i]))

\* computed_event_id of every row
EventIdColumn(ps) == [i \in 1..Len(ps) |-> ps[i].computed_event_id]

\* k is a power of two: its significand is 2^52
IsPowerOfTwoD(k) == k.m = BigShl(<<1>>, SignificandBits - 1)

\* C37 as claimed: recompute with weights (k*a, k*b, k*c) returns the same
\* computed_css, computed_flag and computed_event_id on every row as
\* recompute with weights (a, b, c).
C37_ScalingInvariant ==
  [][IsScale => processed' = processed]_vars

\* C37: only the relative magnitude of the weights matters, up to rounding:
\* with the weights multiplied by k > 0, computed_css of every row differs
\* by at most 1e-9 * max(1, |mwd_ssi|); computed_flag and computed_event_id
\* of every row are the same unless some row's severity lies that close to
\* the threshold; and for k a power of two all three are identical.
C37_ScalingUpToRounding ==
  [][IsScale =>
       /\ Len(processed') = Len(processed)
       /\ \A i \in 1..Len(processed) :
            CloseD(processed'[i].computed_css, processed[i].computed_css,
                   RowToleranceD(rows[i]))
       /\ (~NearThreshold(processed) /\ ~NearThreshold(processed')) =>
            /\ FlagColumn(processed') = FlagColumn(processed)
            /\ EventIdColumn(processed') = EventIdColumn(processed)
       /\ (\E k \in ScaleSet :
             IsPowerOfTwoD(k) /\ detParams' = ScaledParams(detParams, k)) =>
            processed' = processed]_vars

\* C37 witness: a second call whose result differs from the first in a
\* severity, on rows with a flagged sample and no severity near the threshold
C37_Witness ==
  /\ ev.op = "scale"
  /\ ~ev.repeat
  /\ ~NearThreshold(processed)
  /\ \E i \in 1..Len(processed) : processed[i].computed_flag

C21_ZeroWeightsRejected ==
  (called /\ RLe(WeightTotal(detParams), Zero)) =>
    /\ processed = <<>>
    /\ \A i \in 1..Len(processed) : ~IsNaN(processed[i].computed_css)

\* C22: recompute called with minDurationSamples < 1 fails and returns no
\* row; in particular it returns no row flagged as sustained.
C22_ZeroWindowRejected ==
  (called /\ detParams.minDurationSamples < 1) =>
    /\ processed = <<>>
    /\ \A i \in 1..Len(processed) : ~processed[i].computed_flag

====
